---- MODULE Spec2Model ----
(***************************************************************************)
(* Model of dataset/pipeline/step4_fix_dataset.py.                         *)
(*                                                                         *)
(* A Python str is a sequence of lexical atoms.  An atom is one character, *)
(* except that the two tag literals "<label>" and "</label>" are atoms of  *)
(* their own: neither literal can overlap itself or the other, and no      *)
(* source term of the tables drawn here contains one of their characters,  *)
(* so matching on atoms is matching on characters.  Both tag literals      *)
(* begin and end with a non-word character.                                *)
(*                                                                         *)
(* A Python value is a record [kind, s, n]: kind "none" is None, "str" a   *)
(* str with atoms s, "int" the integer n; "raise" stands for an exception  *)
(* leaving the function that was called (n unused, s unused).              *)
(***************************************************************************)
EXTENDS Integers, Sequences, FiniteSets

VARIABLES
    MEDICAL_TERMS,   \* config_postprocess.MEDICAL_TERMS: the dict's items in insertion order
    LABEL_MAPPING,   \* config_postprocess.LABEL_MAPPING: a function on its keys
    text,            \* the argument of a call of the pure functions
    ops,             \* the calls made on it so far, "T" translate_text, "F" fix_output_label, "R" translate_text under a re-inserted table
    outs,            \* the value each of those calls returned
    pc,              \* process_dataset: where the run stands
    disk,            \* path -> what load_from_disk finds there
    disk0,           \* the disk as process_dataset found it
    dataset_path,
    save_path,
    dataset,         \* the DatasetDict in memory
    i,               \* the record the current loop is at
    train_outputs,
    train_changed,
    test_outputs,
    test_changed,
    err,             \* the exception that ended the run, "none" if none
    summary          \* the three counts of the final report

vars == <<MEDICAL_TERMS, LABEL_MAPPING, text, ops, outs, pc, disk, disk0, dataset_path,
          save_path, dataset, i, train_outputs, train_changed, test_outputs,
          test_changed, err, summary>>

fnVars == <<text, ops, outs>>

procVars == <<pc, disk, disk0, dataset_path, save_path, dataset, i, train_outputs,
              train_changed, test_outputs, test_changed, err, summary>>

----
\* Bounds of the model.

\* Longest input text of a pure-function call, in atoms.
MaxLen == 5

\* Most entries of a term table drawn for a pure-function call.
MaxTerms == 2

\* Most records of a split.
MaxRows == 2

----
\* Python values.

None == [kind |-> "none", s |-> <<>>, n |-> 0]

Str(s) == [kind |-> "str", s |-> s, n |-> 0]

Num(n) == [kind |-> "int", s |-> <<>>, n |-> n]

TypeError == [kind |-> "raise", s |-> <<>>, n |-> 0]

\* bool(v): None, "" and 0 are falsy.
Truthy(v) == \/ v.kind = "str" /\ v.s # <<>>
             \/ v.kind = "int" /\ v.n # 0

----
\* Characters and regular expressions (re, Unicode mode).

OpenTag == "<label>"

CloseTag == "</label>"

\* \w: letters, Hangul included ("X", "Y", "n" stand for Korean replacements
\* and canonical labels, which are word characters too).
WordChars == {"a", "A", "X", "Y", "s", "c", "r", "o", "n"}

IsWord(ch) == ch \in WordChars

\* re.IGNORECASE compares case-folded characters.
Lower(ch) == IF ch = "A" THEN "a" ELSE ch

\* \b between atoms p and p+1 of s (p = 0: the start, p = Len(s): the end).
Boundary(s, p) ==
    LET before == p >= 1 /\ IsWord(s[p])
        after  == p < Len(s) /\ IsWord(s[p + 1])
    IN  before # after

\* re.compile(r'\b' + re.escape(eng) + r'\b', re.IGNORECASE) matches at atom p.
MatchAt(eng, s, p) ==
    /\ p + Len(eng) - 1 <= Len(s)
    /\ \A k \in 1..Len(eng) : Lower(s[p + k - 1]) = Lower(eng[k])
    /\ Boundary(s, p - 1)
    /\ Boundary(s, p + Len(eng) - 1)

\* The starts of the matches pattern.sub replaces: leftmost first, and the scan
\* goes on where a match ended, so no two overlap.
RECURSIVE SubMatches(_, _, _)
SubMatches(eng, s, p) ==
    IF p > Len(s) THEN {}
    ELSE IF MatchAt(eng, s, p) THEN {p} \cup SubMatches(eng, s, p + Len(eng))
    ELSE SubMatches(eng, s, p + 1)

\* pattern.sub(kor, s) from atom p on: the replacement is inserted verbatim.
RECURSIVE SubFrom(_, _, _, _)
SubFrom(eng, kor, s, p) ==
    IF p > Len(s) THEN <<>>
    ELSE IF MatchAt(eng, s, p) THEN kor \o SubFrom(eng, kor, s, p + Len(eng))
    ELSE <<s[p]>> \o SubFrom(eng, kor, s, p + 1)

Sub(eng, kor, s) == SubFrom(eng, kor, s, 1)

----
\* translate_text

\* A mutation: sorted(...) without reverse=True, shortest source term first.
RECURSIVE sorted_ascending(_)
sorted_ascending(items) ==
    IF items = <<>> THEN <<>>
    ELSE LET h    == Head(items)
             rest == sorted_ascending(Tail(items))
             Shorter(e) == Len(e.eng) < Len(h.eng)
             NotShorter(e) == ~Shorter(e)
         IN  SelectSeq(rest, Shorter) \o <<h>> \o SelectSeq(rest, NotShorter)

\* sorted(items, key=lambda x: len(x[0]), reverse=True): longest source term
\* first; the sort is stable, so entries of equal length keep insertion order.
RECURSIVE sorted_terms(_)
sorted_terms(items) ==
    IF items = <<>> THEN <<>>
    ELSE LET h    == Head(items)
             rest == sorted_terms(Tail(items))
             Longer(e) == Len(e.eng) > Len(h.eng)
             NotLonger(e) == ~Longer(e)
         IN  SelectSeq(rest, Longer) \o <<h>> \o SelectSeq(rest, NotLonger)

\* The for loop: one substitution pass per entry, each on the result of the last.
RECURSIVE ApplyTerms(_, _)
ApplyTerms(ts, s) ==
    IF ts = <<>> THEN s
    ELSE ApplyTerms(Tail(ts), Sub(Head(ts).eng, Head(ts).kor, s))

\* A mutation: count=1, only the first match of each term is replaced.
SubOnce(eng, kor, s) ==
    LET m == SubMatches(eng, s, 1)
    IN  IF m = {} THEN s
        ELSE LET p == CHOOSE q \in m : \A q2 \in m : q <= q2
             IN  SubSeq(s, 1, p - 1) \o kor \o SubSeq(s, p + Len(eng), Len(s))

RECURSIVE ApplyTermsOnce(_, _)
ApplyTermsOnce(ts, s) ==
    IF ts = <<>> THEN s
    ELSE ApplyTermsOnce(Tail(ts), SubOnce(Head(ts).eng, Head(ts).kor, s))

translate_once(table, txt) ==
    IF ~Truthy(txt) \/ txt.kind # "str" THEN txt
    ELSE Str(ApplyTermsOnce(sorted_terms(table), txt.s))

\* translate_text with the table it reads made explicit.
translate_with(table, txt) ==
    IF ~Truthy(txt) \/ txt.kind # "str" THEN txt
    ELSE Str(ApplyTerms(sorted_terms(table), txt.s))

translate_text(txt) == translate_with(MEDICAL_TERMS, txt)

----
\* fix_output_label

\* The atoms from p on up to the first CloseTag, or the rest when there is none.
RECURSIVE UpToClose(_, _)
UpToClose(s, p) ==
    IF p > Len(s) \/ s[p] = CloseTag THEN <<>>
    ELSE <<s[p]>> \o UpToClose(s, p + 1)

\* r'<label>(.*?)</label>' matches at p: an OpenTag, then as few atoms as
\* possible, none a line break, then a CloseTag.
TagMatchAt(s, p) ==
    /\ p <= Len(s)
    /\ s[p] = OpenTag
    /\ LET inner == UpToClose(s, p + 1)
       IN  /\ p + Len(inner) + 1 <= Len(s)
           /\ \A k \in 1..Len(inner) : inner[k] # "\n"

\* re.search: the leftmost match, 0 when there is none.
Search(s) ==
    IF \E p \in 1..Len(s) : TagMatchAt(s, p)
    THEN CHOOSE p \in 1..Len(s) : TagMatchAt(s, p) /\ \A q \in 1..(p - 1) : ~TagMatchAt(s, q)
    ELSE 0

OccursAt(lit, s, p) ==
    /\ p + Len(lit) - 1 <= Len(s)
    /\ \A k \in 1..Len(lit) : s[p + k - 1] = lit[k]

\* str.replace(old, new), old non-empty: every occurrence, left to right.
RECURSIVE str_replace(_, _, _, _)
str_replace(s, old, new, p) ==
    IF p > Len(s) THEN <<>>
    ELSE IF OccursAt(old, s, p) THEN new \o str_replace(s, old, new, p + Len(old))
    ELSE <<s[p]>> \o str_replace(s, old, new, p + 1)

\* LABEL_MAPPING.get(old_label, old_label)
MappedLabel(old_label) ==
    IF old_label \in DOMAIN LABEL_MAPPING THEN LABEL_MAPPING[old_label] ELSE old_label

Span(inner) == <<OpenTag>> \o inner \o <<CloseTag>>

\* A mutation: output.replace(old, new, 1).
fix_output_label_first(output) ==
    IF ~Truthy(output) THEN output
    ELSE IF output.kind # "str" THEN TypeError
    ELSE LET p == Search(output.s)
         IN  IF p = 0 THEN output
             ELSE LET old_label == UpToClose(output.s, p + 1)
                  IN  Str(SubSeq(output.s, 1, p - 1) \o Span(MappedLabel(old_label))
                          \o SubSeq(output.s, p + Len(old_label) + 2, Len(output.s)))

\* re.search raises TypeError on anything but a str (or bytes).
fix_output_label(output) ==
    IF ~Truthy(output) THEN output
    ELSE IF output.kind # "str" THEN TypeError
    ELSE LET p == Search(output.s)
         IN  IF p = 0 THEN output
             ELSE LET old_label == UpToClose(output.s, p + 1)
                      new_label == MappedLabel(old_label)
                  IN  Str(str_replace(output.s, Span(old_label), Span(new_label), 1))

----
\* Calls of the pure functions: the inputs drawn, and the calls made on them.

\* Every str of at most n atoms over an alphabet.
Texts(alphabet, n) == UNION {[1..k -> alphabet] : k \in 0..n}

\* Atoms of the texts given to translate_text: a letter, a blank, a Korean letter.
TermAlphabet == {"a", " ", "X"}

\* Atoms of the texts given to fix_output_label.
TagAlphabet == {OpenTag, CloseTag, "a", "\n"}

\* (source term, replacement) pairs a table is made of: a compound term, its
\* component in both cases, and replacements with and without source letters.
TermEntries == [eng : {<<"a", " ", "a">>, <<"a">>, <<"A">>}, kor : {<<"X">>, <<"a", " ", "a">>}]

\* dict items in insertion order: keys are unique (as exact strings).
Tables(n) ==
    {t \in UNION {[1..k -> TermEntries] : k \in 0..n} :
        \A j, k \in 1..Len(t) : j # k => t[j].eng # t[k].eng}

\* Label maps: any keys among the empty label and "a", any values among "X" and "a".
LabelMaps == UNION {[K -> {<<"X">>, <<"a">>}] : K \in SUBSET {<<>>, <<"a">>}}

NoLabels == CHOOSE m \in LabelMaps : DOMAIN m = {}

ProcIdle ==
    /\ pc = "fn"
    /\ dataset_path = "p1"
    /\ save_path = "p2"
    /\ disk = [p \in {"p1", "p2"} |-> [kind |-> "missing", splits |-> <<>>]]
    /\ disk0 = disk
    /\ dataset = [kind |-> "missing", splits |-> <<>>]
    /\ i = 0
    /\ train_outputs = <<>>
    /\ train_changed = 0
    /\ test_outputs = <<>>
    /\ test_changed = 0
    /\ err = "none"
    /\ summary = [total |-> 0, changed |-> 0, unchanged |-> 0]

\* Either a text without tags under any term table, or a text with tags under
\* any label map and a term table of at most one entry.
FnInit ==
    /\ ProcIdle
    /\ ops = <<>>
    /\ outs = <<>>
    /\ \/ /\ MEDICAL_TERMS \in Tables(MaxTerms)
          /\ LABEL_MAPPING = NoLabels
          /\ text \in {None} \cup {Str(s) : s \in Texts(TermAlphabet, MaxLen)}
       \/ /\ MEDICAL_TERMS \in {<<>>, <<[eng |-> <<"a">>, kor |-> <<"X">>]>>}
          /\ LABEL_MAPPING \in LabelMaps
          /\ text \in {Str(s) : s \in Texts(TagAlphabet, MaxLen)}

\* The value the next call is made on.
Cur == IF outs = <<>> THEN text ELSE outs[Len(outs)]

\* translate_text(Cur): on the input, on its own output, or on the output of
\* the per-record transform.
CallTranslate ==
    /\ pc = "fn"
    /\ ops \in {<<>>, <<"T">>, <<"T", "F">>}
    /\ ops' = Append(ops, "T")
    /\ outs' = Append(outs, translate_text(Cur))
    /\ UNCHANGED <<MEDICAL_TERMS, LABEL_MAPPING, text, procVars>>

\* fix_output_label(Cur): on the input, on its own output, or after translate_text.
CallFix ==
    /\ pc = "fn"
    /\ ops \in {<<>>, <<"F">>, <<"T">>, <<"T", "F", "T">>}
    /\ ops' = Append(ops, "F")
    /\ outs' = Append(outs, fix_output_label(Cur))
    /\ UNCHANGED <<MEDICAL_TERMS, LABEL_MAPPING, text, procVars>>

\* The table is rebuilt with the same pairs inserted in another order, and
\* translate_text is called on the same text again.
Reinsert ==
    /\ pc = "fn"
    /\ ops = <<"T">>
    /\ \E t \in [1..Len(MEDICAL_TERMS) -> {MEDICAL_TERMS[k] : k \in 1..Len(MEDICAL_TERMS)}] :
          /\ {t[k] : k \in 1..Len(t)} = {MEDICAL_TERMS[k] : k \in 1..Len(MEDICAL_TERMS)}
          /\ t # MEDICAL_TERMS
          /\ MEDICAL_TERMS' = t
          /\ outs' = Append(outs, translate_with(t, text))
    /\ ops' = <<"T", "R">>
    /\ UNCHANGED <<LABEL_MAPPING, text, procVars>>

FnNext == CallTranslate \/ CallFix \/ Reinsert

SpecFn == FnInit /\ [][FnNext]_vars

----
\* process_dataset: the disk and the datasets on it.

Paths == {"p1", "p2"}

Missing == [kind |-> "missing", splits |-> <<>>]

Malformed == [kind |-> "malformed", splits |-> <<>>]

\* The tables of the end-to-end scenario, "s c" for "skin cancer", "c" for
\* "cancer", "o" for the label "old" and "n" for "new"; the shorter term is
\* listed first.
ExampleTerms == <<[eng |-> <<"c">>, kor |-> <<"Y">>], [eng |-> <<"s", " ", "c">>, kor |-> <<"X">>]>>

ExampleLabels == [k \in {<<"o">>} |-> <<"n">>]

\* What the `output` field of a record may hold: None, "", a number, a text
\* both functions rewrite ("s c <label>o</label>") and one neither does ("r").
RowValues ==
    {None, Str(<<>>), Num(7), Str(<<"s", " ", "c", " ", OpenTag, "o", CloseTag>>), Str(<<"r">>)}

\* A split: its number of rows, and its `output` column when it has one.
Splits ==
    {[has_output |-> TRUE, rows |-> Len(o), output |-> o] :
        o \in UNION {[1..k -> RowValues] : k \in 0..MaxRows}}
    \cup {[has_output |-> FALSE, rows |-> k, output |-> <<>>] : k \in 0..MaxRows}

\* A DatasetDict with any of the splits train and test.
Datasets ==
    {[kind |-> "dataset", splits |-> sp] :
        sp \in UNION {[D -> Splits] : D \in SUBSET {"train", "test"}}}

ProcInit ==
    /\ pc = "load"
    /\ dataset_path = "p1"
    /\ save_path \in Paths
    /\ \E d \in Datasets \cup {Missing, Malformed} :
          disk = [p \in Paths |-> IF p = dataset_path THEN d ELSE Missing]
    /\ disk0 = disk
    /\ dataset = Missing
    /\ i = 0
    /\ train_outputs = <<>>
    /\ train_changed = 0
    /\ test_outputs = <<>>
    /\ test_changed = 0
    /\ err = "none"
    /\ summary = [total |-> 0, changed |-> 0, unchanged |-> 0]
    /\ MEDICAL_TERMS = ExampleTerms
    /\ LABEL_MAPPING = ExampleLabels
    /\ text = None
    /\ ops = <<>>
    /\ outs = <<>>

Abort(e) ==
    /\ pc' = "aborted"
    /\ err' = e

\* load_from_disk(dataset_path) returns the dataset at the path.
Load ==
    /\ pc = "load"
    /\ disk[dataset_path].kind = "dataset"
    /\ dataset' = disk[dataset_path]
    /\ pc' = "train"
    /\ i' = 1
    /\ UNCHANGED <<MEDICAL_TERMS, LABEL_MAPPING, fnVars, disk, disk0, dataset_path, save_path,
                   train_outputs, train_changed, test_outputs, test_changed, err, summary>>

\* load_from_disk raises: nothing, or no dataset, at the path.
LoadFailure ==
    /\ pc = "load"
    /\ disk[dataset_path].kind # "dataset"
    /\ Abort("LoadFailure")
    /\ UNCHANGED <<MEDICAL_TERMS, LABEL_MAPPING, fnVars, disk, disk0, dataset_path, save_path,
                   dataset, i, train_outputs, train_changed, test_outputs, test_changed, summary>>

\* A mutation: every record counts as changed.
ProcessRecord_CountAll(output) ==
    IF ~Truthy(output) THEN [raised |-> FALSE, out |-> output, inc |-> 1]
    ELSE LET new == fix_output_label(translate_text(output))
         IN  [raised |-> new.kind = "raise", out |-> new, inc |-> 1]

\* A mutation: an absent output is collected as the empty string.
ProcessRecord_NoneToEmpty(output) ==
    IF ~Truthy(output) THEN [raised |-> FALSE, out |-> Str(<<>>), inc |-> 0]
    ELSE LET new == fix_output_label(translate_text(output))
         IN  [raised |-> new.kind = "raise", out |-> new, inc |-> IF new # output THEN 1 ELSE 0]

\* The body of both loops: the value to collect, whether it counts as changed,
\* or the exception that leaves the loop.
ProcessRecord(output) ==
    IF ~Truthy(output) THEN [raised |-> FALSE, out |-> output, inc |-> 0]
    ELSE LET new == fix_output_label(translate_text(output))
         IN  [raised |-> new.kind = "raise", out |-> new, inc |-> IF new # output THEN 1 ELSE 0]

\* dataset["train"] or example['output'] raises KeyError.
TrainLookupError ==
    /\ pc = "train"
    /\ \/ "train" \notin DOMAIN dataset.splits
       \/ /\ "train" \in DOMAIN dataset.splits
          /\ i <= dataset.splits["train"].rows
          /\ ~dataset.splits["train"].has_output
    /\ Abort("KeyError")
    /\ UNCHANGED <<MEDICAL_TERMS, LABEL_MAPPING, fnVars, disk, disk0, dataset_path, save_path,
                   dataset, i, train_outputs, train_changed, test_outputs, test_changed, summary>>

\* One pass of the train loop.
TrainIter ==
    /\ pc = "train"
    /\ "train" \in DOMAIN dataset.splits
    /\ i <= dataset.splits["train"].rows
    /\ dataset.splits["train"].has_output
    /\ LET r == ProcessRecord(dataset.splits["train"].output[i])
       IN  IF r.raised
           THEN /\ Abort("TypeError")
                /\ UNCHANGED <<i, train_outputs, train_changed>>
           ELSE /\ train_outputs' = Append(train_outputs, r.out)
                /\ train_changed' = train_changed + r.inc
                /\ i' = i + 1
                /\ UNCHANGED <<pc, err>>
    /\ UNCHANGED <<MEDICAL_TERMS, LABEL_MAPPING, fnVars, disk, disk0, dataset_path, save_path,
                   dataset, test_outputs, test_changed, summary>>

\* The train loop ends; test_outputs = [], test_changed = 0.
TrainExit ==
    /\ pc = "train"
    /\ "train" \in DOMAIN dataset.splits
    /\ i > dataset.splits["train"].rows
    /\ pc' = "test"
    /\ i' = 1
    /\ test_outputs' = <<>>
    /\ test_changed' = 0
    /\ UNCHANGED <<MEDICAL_TERMS, LABEL_MAPPING, fnVars, disk, disk0, dataset_path, save_path,
                   dataset, train_outputs, train_changed, err, summary>>

\* dataset["test"] or example['output'] raises KeyError.
TestLookupError ==
    /\ pc = "test"
    /\ \/ "test" \notin DOMAIN dataset.splits
       \/ /\ "test" \in DOMAIN dataset.splits
          /\ i <= dataset.splits["test"].rows
          /\ ~dataset.splits["test"].has_output
    /\ Abort("KeyError")
    /\ UNCHANGED <<MEDICAL_TERMS, LABEL_MAPPING, fnVars, disk, disk0, dataset_path, save_path,
                   dataset, i, train_outputs, train_changed, test_outputs, test_changed, summary>>

\* One pass of the test loop.
TestIter ==
    /\ pc = "test"
    /\ "test" \in DOMAIN dataset.splits
    /\ i <= dataset.splits["test"].rows
    /\ dataset.splits["test"].has_output
    /\ LET r == ProcessRecord(dataset.splits["test"].output[i])
       IN  IF r.raised
           THEN /\ Abort("TypeError")
                /\ UNCHANGED <<i, test_outputs, test_changed>>
           ELSE /\ test_outputs' = Append(test_outputs, r.out)
                /\ test_changed' = test_changed + r.inc
                /\ i' = i + 1
                /\ UNCHANGED <<pc, err>>
    /\ UNCHANGED <<MEDICAL_TERMS, LABEL_MAPPING, fnVars, disk, disk0, dataset_path, save_path,
                   dataset, train_outputs, train_changed, summary>>

\* The test loop ends.
TestExit ==
    /\ pc = "test"
    /\ "test" \in DOMAIN dataset.splits
    /\ i > dataset.splits["test"].rows
    /\ pc' = "rebuild_train"
    /\ UNCHANGED <<MEDICAL_TERMS, LABEL_MAPPING, fnVars, disk, disk0, dataset_path, save_path,
                   dataset, i, train_outputs, train_changed, test_outputs, test_changed,
                   err, summary>>

\* remove_columns("output") then add_column("output", outputs) on one split.
Rebuilt(name, outputs) ==
    [dataset EXCEPT !.splits[name] = [has_output |-> TRUE, rows |-> @.rows, output |-> outputs]]

RebuildTrain ==
    /\ pc = "rebuild_train"
    /\ dataset.splits["train"].has_output
    /\ dataset' = Rebuilt("train", train_outputs)
    /\ pc' = "rebuild_test"
    /\ UNCHANGED <<MEDICAL_TERMS, LABEL_MAPPING, fnVars, disk, disk0, dataset_path, save_path,
                   i, train_outputs, train_changed, test_outputs, test_changed, err, summary>>

RebuildTest ==
    /\ pc = "rebuild_test"
    /\ dataset.splits["test"].has_output
    /\ dataset' = Rebuilt("test", test_outputs)
    /\ pc' = "save"
    /\ UNCHANGED <<MEDICAL_TERMS, LABEL_MAPPING, fnVars, disk, disk0, dataset_path, save_path,
                   i, train_outputs, train_changed, test_outputs, test_changed, err, summary>>

\* remove_columns("output") raises ValueError: the split (an empty one, or a
\* loop would have raised) has no such column.
RebuildError ==
    /\ \/ pc = "rebuild_train" /\ ~dataset.splits["train"].has_output
       \/ pc = "rebuild_test" /\ ~dataset.splits["test"].has_output
    /\ Abort("ValueError")
    /\ UNCHANGED <<MEDICAL_TERMS, LABEL_MAPPING, fnVars, disk, disk0, dataset_path, save_path,
                   dataset, i, train_outputs, train_changed, test_outputs, test_changed, summary>>

\* A mutation: the dataset is saved as soon as the train column is rebuilt.
SaveEarly ==
    /\ pc \in {"rebuild_test", "save"}
    /\ disk' = [disk EXCEPT ![save_path] = dataset]
    /\ pc' = "report"
    /\ UNCHANGED <<MEDICAL_TERMS, LABEL_MAPPING, fnVars, disk0, dataset_path, save_path, dataset,
                   i, train_outputs, train_changed, test_outputs, test_changed, err, summary>>

\* dataset.save_to_disk(save_path) writes the dataset in memory to save_path.
Save ==
    /\ pc = "save"
    /\ disk' = [disk EXCEPT ![save_path] = dataset]
    /\ pc' = "report"
    /\ UNCHANGED <<MEDICAL_TERMS, LABEL_MAPPING, fnVars, disk0, dataset_path, save_path, dataset,
                   i, train_outputs, train_changed, test_outputs, test_changed, err, summary>>

\* dataset.save_to_disk(save_path) raises (the destination cannot be written).
SaveFailure ==
    /\ pc = "save"
    /\ Abort("SaveFailure")
    /\ UNCHANGED <<MEDICAL_TERMS, LABEL_MAPPING, fnVars, disk, disk0, dataset_path, save_path,
                   dataset, i, train_outputs, train_changed, test_outputs, test_changed, summary>>

\* The final report: processed, changed, unchanged.
Report ==
    /\ pc = "report"
    /\ summary' = [total     |-> Len(train_outputs) + Len(test_outputs),
                   changed   |-> train_changed + test_changed,
                   unchanged |-> Len(train_outputs) + Len(test_outputs)
                                 - train_changed - test_changed]
    /\ pc' = "done"
    /\ UNCHANGED <<MEDICAL_TERMS, LABEL_MAPPING, fnVars, disk, disk0, dataset_path, save_path,
                   dataset, i, train_outputs, train_changed, test_outputs, test_changed, err>>

Init == ProcInit

Next ==
    \/ Load
    \/ LoadFailure
    \/ TrainLookupError
    \/ TrainIter
    \/ TrainExit
    \/ TestLookupError
    \/ TestIter
    \/ TestExit
    \/ RebuildTrain
    \/ RebuildTest
    \/ RebuildError
    \/ Save
    \/ SaveFailure
    \/ Report

Spec == Init /\ [][Next]_vars

----
\* Properties of process_dataset (checked under Spec).

\* The dataset process_dataset was pointed at.
Src == disk0[dataset_path]

\* The per-record transform: translate_text, then fix_output_label.
Transform(v) == fix_output_label(translate_text(v))

\* The rebuild step has been passed.
PastRebuild == pc \in {"save", "report", "done"} \/ (pc = "aborted" /\ err = "SaveFailure")

TransformedColumn(name) ==
    LET o == dataset.splits[name].output
        src == Src.splits[name]
    IN  /\ Len(o) = src.rows
        /\ Len(o) = Len(src.output)
        /\ \A j \in 1..Len(o) : o[j] = Transform(src.output[j])

\* C1: once the rebuild step is passed, each split's rebuilt `output` column
\* has as many entries as the split had records, and entry j is the transform
\* of the original entry j; nothing is dropped, duplicated or reordered, empty
\* and absent outputs included.
C1_RebuildKeepsRows ==
    PastRebuild => TransformedColumn("train") /\ TransformedColumn("test")

C1_Witness ==
    /\ pc = "save"
    /\ Len(Src.splits["train"].output) = 2
    /\ Src.splits["train"].output[1] = None
    /\ train_changed = 1
    /\ Len(Src.splits["test"].output) = 2
    /\ Src.splits["test"].output[2] = Str(<<>>)

Defective(d) ==
    \/ d.kind # "dataset"
    \/ \E name \in {"train", "test"} :
          name \notin DOMAIN d.splits \/ ~d.splits[name].has_output

\* The defect is one the train loop meets at its first step.
TrainDefective(d) ==
    \/ d.kind # "dataset"
    \/ "train" \notin DOMAIN d.splits
    \/ ~d.splits["train"].has_output /\ d.splits["train"].rows > 0

\* C3 as claimed: a defective dataset makes the run fail in the load phase,
\* that is, no record of any split is ever transformed.
C3_FailsInLoad ==
    Defective(Src) =>
        /\ train_outputs = <<>>
        /\ test_outputs = <<>>

\* What the code does on a defective dataset: the run never reaches the save
\* step and writes nothing.  Only a missing or malformed dataset fails in the
\* load phase.  A missing train split, or a missing `output` field in a
\* non-empty train split, raises at the first step of the train loop.  Any
\* other defect raises only after every train record has been processed.
DefectiveNeverSaved ==
    Defective(Src) =>
        /\ disk = disk0
        /\ pc \notin {"save", "report", "done"}
        /\ Src.kind # "dataset" => pc \in {"load", "aborted"}
        /\ err = "LoadFailure" <=> (pc = "aborted" /\ Src.kind # "dataset")
        /\ TrainDefective(Src) => train_outputs = <<>> /\ test_outputs = <<>>
        /\ (~TrainDefective(Src) /\ err \in {"KeyError", "ValueError"}) =>
              Len(train_outputs) = Src.splits["train"].rows

\* C4 as claimed: a record whose `output` is neither a str nor absent (a
\* non-zero number) is collected at its position as it is, is not counted as
\* changed, and the run does not raise.
C4_NonStringPassesThrough ==
    /\ err # "TypeError"
    /\ \A j \in 1..Len(train_outputs) :
          Src.splits["train"].output[j].kind = "int" =>
              train_outputs[j] = Src.splits["train"].output[j]
    /\ \A j \in 1..Len(test_outputs) :
          Src.splits["test"].output[j].kind = "int" =>
              test_outputs[j] = Src.splits["test"].output[j]

\* C5 as claimed: the dataset at dataset_path stays as it was found in every
\* call, also when the caller passes save_path = dataset_path.
C5_SourceNeverWritten == disk[dataset_path] = disk0[dataset_path]

EmptyOutput(v) == v = None \/ v = Str(<<>>)

EmptyKept(src, outputs, changed) ==
    /\ \A j \in 1..Len(outputs) : EmptyOutput(src[j]) => outputs[j] = src[j]
    /\ changed <= Cardinality({j \in 1..Len(outputs) : ~EmptyOutput(src[j])})
    /\ changed >= 0

\* C6: in each split a record whose `output` is None or "" is collected
\* unchanged at its position and never counted; the changed count never
\* exceeds the number of records with a non-empty output, and the reported
\* unchanged count, total minus changed, is never negative.
C6_EmptyNeverCounted ==
    /\ Len(train_outputs) > 0 =>
          EmptyKept(Src.splits["train"].output, train_outputs, train_changed)
    /\ Len(test_outputs) > 0 =>
          EmptyKept(Src.splits["test"].output, test_outputs, test_changed)
    /\ train_changed <= Len(train_outputs)
    /\ test_changed <= Len(test_outputs)
    /\ pc = "done" =>
          /\ summary.total = Len(train_outputs) + Len(test_outputs)
          /\ summary.changed = train_changed + test_changed
          /\ summary.unchanged = summary.total - summary.changed
          /\ summary.unchanged >= 0

C6_Witness ==
    /\ pc = "done"
    /\ Len(train_outputs) = 2
    /\ train_outputs[2] = None
    /\ Len(test_outputs) = 2
    /\ test_outputs[1] = Str(<<>>)
    /\ summary.changed = 2
    /\ summary.unchanged = 2

----
\* Properties of the pure functions (checked under SpecFn).

\* The positions at which the source term occurs in s between word boundaries.
Occurrences(eng, s) == {p \in 1..Len(s) : MatchAt(eng, s, p)}

\* The shorter source term is a word-bounded part of the longer one.
PartOf(short, long) == Len(short) < Len(long) /\ Occurrences(short, long) # {}

Entries(table) == {table[k] : k \in 1..Len(table)}

IndexOf(seq, e) == CHOOSE k \in 1..Len(seq) : seq[k] = e

\* A call translate_text(text) on a str has returned.
Translated == ops = <<"T">> /\ text.kind = "str"

\* The longest term of the table, whose pass works on the input itself, when
\* some shorter term of the table is a word-bounded part of it.
LongestWithPart(L) ==
    /\ MEDICAL_TERMS # <<>>
    /\ L = sorted_terms(MEDICAL_TERMS)[1]
    /\ \E S \in Entries(MEDICAL_TERMS) : PartOf(S.eng, L.eng)

\* C7 as claimed: when a shorter term is a word-bounded part of the (longest)
\* term, every word-bounded occurrence of the longer term in the input is
\* replaced as a whole by its pass.
C7_EveryOccurrenceWhole ==
    Translated =>
        \A L \in Entries(MEDICAL_TERMS) :
            LongestWithPart(L) => Occurrences(L.eng, text.s) \subseteq SubMatches(L.eng, text.s, 1)

\* C7 as amended: the table is applied from longest source term to shortest,
\* so the pass of a longer term runs before the pass of any shorter term that
\* is a word-bounded part of it; the pass replaces as a whole every
\* word-bounded occurrence of its term that does not overlap an occurrence it
\* already replaced to the left; and with a table of just the two terms the
\* result is the shorter term's pass applied to the longer term's pass.
C7_LongestFirst ==
    Translated =>
        LET st == sorted_terms(MEDICAL_TERMS)
        IN  /\ Len(st) = Len(MEDICAL_TERMS)
            /\ Entries(st) = Entries(MEDICAL_TERMS)
            /\ \A j, k \in 1..Len(st) : j < k => Len(st[j].eng) >= Len(st[k].eng)
            /\ \A L, S \in Entries(MEDICAL_TERMS) :
                  PartOf(S.eng, L.eng) =>
                      /\ IndexOf(st, L) < IndexOf(st, S)
                      /\ Len(MEDICAL_TERMS) = 2 =>
                            outs[1] = Str(Sub(S.eng, S.kor, Sub(L.eng, L.kor, text.s)))
            /\ \A L \in Entries(MEDICAL_TERMS) :
                  LongestWithPart(L) =>
                      \A p \in Occurrences(L.eng, text.s) :
                          \/ p \in SubMatches(L.eng, text.s, 1)
                          \/ \E q \in SubMatches(L.eng, text.s, 1) : q < p /\ p < q + Len(L.eng)

\* "a a" with the table {"a": ..., "a a": "X"}, the shorter term listed first.
C7_Witness ==
    /\ Translated
    /\ Len(MEDICAL_TERMS) = 2
    /\ MEDICAL_TERMS[1].eng = <<"a">>
    /\ MEDICAL_TERMS[2] = [eng |-> <<"a", " ", "a">>, kor |-> <<"X">>]
    /\ text = Str(<<"a", " ", "a", " ", "X">>)
    /\ outs[1] = Str(<<"X", " ", "X">>)

\* C8 as claimed: the per-record transform, translate_text and
\* fix_output_label are each idempotent, on every text.
C8_Idempotent ==
    /\ ops = <<"T", "F", "T", "F">> => outs[4] = outs[2]
    /\ ops = <<"T", "T">> => outs[2] = outs[1]
    /\ ops = <<"F", "F">> => outs[2] = outs[1]

Chars(s) == {Lower(s[k]) : k \in 1..Len(s)}

SourceChars == UNION {Chars(e.eng) : e \in Entries(MEDICAL_TERMS)}

\* No replacement can trigger a match again: replacement terms are non-empty,
\* made of word characters, and share no character (up to case) with a source
\* term; source terms start and end with a word character and hold no tag;
\* a mapped label that is a key maps to itself, holds no line break and no
\* closing tag, and shares no character with a source term.
Closed ==
    /\ \A e \in Entries(MEDICAL_TERMS) :
          /\ e.kor # <<>>
          /\ \A k \in 1..Len(e.kor) : IsWord(e.kor[k])
          /\ Chars(e.kor) \cap SourceChars = {}
          /\ e.eng # <<>>
          /\ IsWord(e.eng[1]) /\ IsWord(e.eng[Len(e.eng)])
          /\ Chars(e.eng) \cap {OpenTag, CloseTag} = {}
    /\ \A key \in DOMAIN LABEL_MAPPING :
          LET m == LABEL_MAPPING[key]
          IN  /\ m \in DOMAIN LABEL_MAPPING => LABEL_MAPPING[m] = m
              /\ Chars(m) \cap {"\n", CloseTag} = {}
              /\ Chars(m) \cap SourceChars = {}

\* C8 as amended: the transform and each of its two functions are idempotent
\* under tables in which no replacement can trigger a match again (Closed).
C8_IdempotentWhenClosed == Closed => C8_Idempotent

C8_Witness ==
    /\ Closed
    /\ ops = <<"T", "F", "T", "F">>
    /\ outs[1] # text
    /\ outs[2] # outs[1]
    /\ outs[4] = outs[2]

\* s with the n atoms at p replaced by new.
Splice(s, p, n, new) == SubSeq(s, 1, p - 1) \o new \o SubSeq(s, p + n, Len(s))

\* s with the n atoms at each position of P replaced by new, rightmost first.
RECURSIVE SpliceAll(_, _, _, _)
SpliceAll(s, P, n, new) ==
    IF P = {} THEN s
    ELSE LET q == CHOOSE x \in P : \A y \in P : y <= x
         IN  SpliceAll(Splice(s, q, n, new), P \ {q}, n, new)

\* A call fix_output_label(text) has returned, on a text whose first
\* <label>INNER</label> span has an INNER the label map maps.
FixedMapped ==
    /\ ops = <<"F">>
    /\ text.kind = "str"
    /\ Search(text.s) # 0
    /\ UpToClose(text.s, Search(text.s) + 1) \in DOMAIN LABEL_MAPPING

FirstSpan == Span(UpToClose(text.s, Search(text.s) + 1))

\* C9 as claimed: only the first occurrence of the literal span is rewritten,
\* every other character, a later identical span included, is left as it is.
C9_OnlyFirstSpan ==
    FixedMapped =>
        outs[1] = Str(Splice(text.s, Search(text.s), Len(FirstSpan),
                             Span(LABEL_MAPPING[UpToClose(text.s, Search(text.s) + 1)])))

\* C9 as amended: every occurrence of the literal span <label>INNER</label>
\* is rewritten to <label>MAPPED</label>, and every other character is left
\* as it is.
C9_EverySpan ==
    FixedMapped =>
        outs[1] = Str(SpliceAll(text.s,
                                {p \in 1..Len(text.s) : OccursAt(FirstSpan, text.s, p)},
                                Len(FirstSpan),
                                Span(LABEL_MAPPING[UpToClose(text.s, Search(text.s) + 1)])))

C9_Witness ==
    /\ FixedMapped
    /\ Cardinality({p \in 1..Len(text.s) : OccursAt(FirstSpan, text.s, p)}) = 2
    /\ text.s[1] = "a"
    /\ outs[1] # text

\* C10 as claimed: translate_text gives the same result for two tables that
\* hold the same pairs in different insertion order.
C10_OrderIrrelevant == ops = <<"T", "R">> => outs[2] = outs[1]

====
